---- MODULE Spec2Model ----
(***************************************************************************)
(* A model of the RSS-to-Telegram batch job.                               *)
(*                                                                         *)
(*   Spec       the run controller of src/main.go: preflight, loadState,   *)
(*              the feed loop, the item loop (oldest first), enrichment,   *)
(*              sendToTelegram, pacing, the report and the deferred        *)
(*              saveState, run again by the scheduler up to MaxRuns times; *)
(*   SpecOneRun one run of src/main.go started on any state file, with     *)
(*              endpoints that may never answer;                           *)
(*   SpecRetry  the single-feed variant of src/unnamed/part_001, whose     *)
(*              send loop sleeps and re-sends on a retry_after answer;     *)
(*   SpecRetryFair  the same with a process that keeps taking steps.       *)
(*                                                                         *)
(* The environment (feed servers, the article site, the AI model, the      *)
(* Telegram API, the file system, an external kill) is nondeterministic.   *)
(***************************************************************************)
EXTENDS Naturals, Integers, Sequences, FiniteSets, TLC

VARIABLES
    run,          \* number of the current process run
    pc,           \* position of the run in main()
    feeds,        \* what each feed URL serves (unchanged between runs)
    file,         \* content of STATE_FILE
    state,        \* main: state map, as the set of keys mapped to true
    postsSent,    \* main: postsSent
    fi,           \* main: index of feedURL in RSS_FEEDS (1-based)
    i,            \* main: item loop index (1-based; Go's i is this minus 1)
    err,          \* main: err of the last sendToTelegram
    aiDescript,   \* main: aiDescript of the item being sent
    fetchErr,     \* main: fetchErr of fetchArticleContent for that item
    aiErr,        \* main: aiErr of genkit.Generate for that item
    msg,          \* main: msg, the message handed to sendToTelegram
    creds,        \* main: what the environment gave for the credentials
    panicking,    \* the goroutine is unwinding after a panic
    reported,     \* the final "Job finished" line was printed
    loaded,       \* ids marked true in STATE_FILE when this run read it
    loadErr,      \* loadState's ReadFile or Unmarshal failed in this run
    werr,         \* result of os.WriteFile (discarded by saveState)
    saves,        \* calls of saveState in this run
    delivered,    \* ids of the messages Telegram accepted in this run, in order
    attempted,    \* ids for which sendToTelegram was called in this run
    watch,        \* one id whose send failed without retry_after in this run
    fetchFailed,  \* feed indices whose fetchRSS failed in this run
    prevWatch,    \* `watch` of the previous run
    retries,      \* part_001: re-sends of the current message
    retryAfter,   \* part_001: retry_after of the last rate-limit answer
    slept         \* part_001: seconds slept before the re-send

vars == << run, pc, feeds, file, state, postsSent, fi, i, err, aiDescript,
           fetchErr, aiErr, msg, creds, panicking, reported, loaded,
           loadErr, werr, saves, delivered, attempted, watch, fetchFailed,
           prevWatch,
           retries, retryAfter, slept >>

(***************************************************************************)
(* Bounds of the model.                                                    *)
(***************************************************************************)
\* Runs of the scheduled job that are followed.
MaxRuns == 2
\* Re-sends of one message that are counted; more are taken as this many.
MaxRetries == 2
\* Largest retry_after (seconds) the target answers with.
MaxRetryAfter == 36
\* The cap on deliveries per run. main.go sets 100; the model runs the
\* pipeline with a small cap so that runs reach it.
MAX_POSTS_PER_RUN == 2

(***************************************************************************)
(* Program constants.                                                      *)
(***************************************************************************)
\* The feed list, cut to three URLs.
RSS_FEEDS == << "feed1", "feed2", "feed3" >>
\* part_001: time.Sleep(35 * time.Second) after a retry_after answer.
RETRY_SLEEP == 35
NO_AI_DESCRIPTION == "NO AI DESCRIPTION"

(***************************************************************************)
(* Data.                                                                   *)
(***************************************************************************)
Item(l, t, d) == [link |-> l, title |-> t, desc |-> d]

\* What a feed can serve, newest item first.
ItemLists ==
    { << Item("a", "A2", "y"), Item("a", "A", "x") >>,
      << Item("c", "C", "x"), Item("b", "B", "x"), Item("a", "A", "x") >>,
      << Item("e", "E", "x"), Item("d", "D", "x") >> }

Links == {"a", "b", "c", "d", "e"}

\* hash: hex of SHA-256, injective on the links of the model.
hash(s) == << "sha256", s >>

Ids == { hash(l) : l \in Links }

Range(s) == { s[k] : k \in DOMAIN s }

None == "none"

\* Contents of STATE_FILE:
\*   absent      no file;
\*   unreadable  a file that os.ReadFile cannot read; ids as for json;
\*   json        a JSON object of booleans; ids are the keys mapped to true;
\*   typed       valid JSON with some non-boolean values; ids as for json;
\*   garbage     not valid JSON (empty or cut short).
FileOf(kind, ids) == [kind |-> kind, ids |-> ids]
Absent == FileOf("absent", {})
Truncated == FileOf("garbage", {})

\* A fresh map marshalled in place of the one main filled.
MarshalIndentEmpty(st) == FileOf("json", {})

\* json.MarshalIndent of the map, as file content.
MarshalIndent(st) == FileOf("json", st)

\* json.Unmarshal into the map: a syntax error decodes nothing, a type error
\* skips the offending value and decodes the rest.
Unmarshal(f) == IF f.kind \in {"json", "typed"} THEN f.ids ELSE {}

\* loadState dropping what it decoded.
loadStateEmpty(f) == {}

\* loadState: empty when ReadFile fails, else whatever Unmarshal filled in.
loadState(f) ==
    IF f.kind \in {"absent", "unreadable"} THEN {} ELSE Unmarshal(f)

Items(f) == feeds[f]
CurItem == Items(fi)[i]
\* The identity hashed from the title and the link together.
IdentityTitleLink(item) == hash(<< item.title, item.link >>)

\* main.go 362: id := hash(item.Link).
Identity(item) == hash(item.link)

CurId == Identity(CurItem)
IdsOf(f) == { hash(Items(f)[k].link) : k \in DOMAIN Items(f) }
AllIds == UNION { IdsOf(f) : f \in DOMAIN RSS_FEEDS }

(***************************************************************************)
(* Initial state: the first run of the job is starting.                    *)
(***************************************************************************)
\* The job has not run before: there is no state file.
InitFiles == { Absent }

Memory0 ==
    /\ state = {}
    /\ postsSent = 0
    /\ fi = 0
    /\ i = 0
    /\ err = None
    /\ aiDescript = None
    /\ fetchErr = None
    /\ aiErr = None
    /\ msg = None
    /\ creds = None
    /\ panicking = FALSE
    /\ reported = FALSE
    /\ retries = 0
    /\ retryAfter = 0
    /\ slept = 0

History0 ==
    /\ loaded = {}
    /\ loadErr = FALSE
    /\ werr = None
    /\ saves = 0
    /\ delivered = << >>
    /\ attempted = {}
    /\ watch = None
    /\ fetchFailed = {}

Init ==
    /\ run = 1
    /\ pc = "main"
    /\ feeds \in [DOMAIN RSS_FEEDS -> ItemLists]
    /\ file \in InitFiles
    /\ Memory0
    /\ History0
    /\ prevWatch = None

enrichVars == << aiDescript, fetchErr, aiErr, msg >>
memVars == << state, postsSent, fi, i, err, enrichVars, creds, panicking,
              reported, retries, retryAfter, slept >>
histVars == << loaded, loadErr, werr, saves, delivered, attempted, watch,
               fetchFailed >>
envVars == << run, feeds, prevWatch >>
retryVars == << retries, retryAfter, slept >>

(***************************************************************************)
(* main.go: the run controller.                                            *)
(***************************************************************************)

\* The credentials checked after `defer saveState(state)`: the return runs it.
OnMissingCredentialsDeferred == "saveState"

\* main.go 319-322 and 324-327: return, before anything was deferred.
OnMissingCredentials == "returned"

\* main.go 314-327: TG_BOT_TOKEN and TG_CHANNEL_ID are checked first, then
\* GEMINI_API_KEY and GEMINI_MODEL; a missing one ends the run at once.
Preflight ==
    /\ pc = "main"
    /\ \E tg \in BOOLEAN, gemini \in BOOLEAN :
          /\ creds' = IF ~tg THEN "no_telegram"
                      ELSE IF ~gemini THEN "no_gemini" ELSE "present"
          /\ pc' = IF tg /\ gemini THEN "loadState" ELSE OnMissingCredentials
    /\ UNCHANGED << envVars, file, state, postsSent, fi, i, err, enrichVars,
                    panicking, reported, retryVars, histVars >>

\* main.go 334-337: state := loadState(); defer saveState(state); postsSent := 0.
LoadState ==
    /\ pc = "loadState"
    /\ state' = loadState(file)
    /\ loaded' = file.ids
    /\ loadErr' = (file.kind # "json")
    /\ postsSent' = 0
    /\ fi' = 1
    /\ pc' = "feedLoop"
    /\ UNCHANGED << envVars, file, i, err, enrichVars, creds, panicking,
                    reported, retryVars, werr, saves, delivered, attempted, watch,
                    fetchFailed >>

\* The cap test left out: it never stops the loops.
CapNeverReached == postsSent < 0

\* The cap test written with > for >=.
CapReachedPastLimit == postsSent > MAX_POSTS_PER_RUN

\* main.go 340 and 357: postsSent >= MAX_POSTS_PER_RUN.
CapReached == postsSent >= MAX_POSTS_PER_RUN

\* main.go 339-345: the head of the feed loop.
FeedLoop ==
    /\ pc = "feedLoop"
    /\ pc' = IF fi > Len(RSS_FEEDS) \/ CapReached THEN "report" ELSE "fetchRSS"
    /\ UNCHANGED << envVars, file, memVars, histVars >>

\* The item loop started at the newest item.
FirstIndexNewest(items) == IF Len(items) = 0 THEN 0 ELSE 1

\* main.go 356: i := len(rss.Channel.Items) - 1.
FirstIndex(items) == Len(items)

\* A fetch error leaving the feed loop (break instead of continue).
OnFetchErrorBreak == [pc |-> "report", fi |-> fi]

\* main.go 348-351: on a fetch error, continue with the next feed.
OnFetchError == [pc |-> "feedLoop", fi |-> fi + 1]

\* main.go 347-353, 216-242: fetchRSS fails (transport, status, read, parse)
\* and the loop continues with the next feed, or it returns the items.
FetchRSS ==
    /\ pc = "fetchRSS"
    /\ \E ok \in BOOLEAN :
          IF ok
          THEN /\ i' = FirstIndex(Items(fi))
               /\ pc' = "itemLoop"
               /\ UNCHANGED << fi, fetchFailed >>
          ELSE /\ fi' = OnFetchError.fi
               /\ pc' = OnFetchError.pc
               /\ fetchFailed' = fetchFailed \cup {fi}
               /\ UNCHANGED i
    /\ UNCHANGED << envVars, file, state, postsSent, err, enrichVars,
                    creds, panicking, reported, retryVars, loaded, loadErr,
                    werr, saves, delivered, attempted, watch >>

\* The check of line 364 left out: nothing is ever taken as seen.
SeenNever(id) == FALSE

\* main.go 364: if state[id].
Seen(id) == id \in state

\* main.go 356-366: the head of the item loop: leave it at the end of the
\* list or at the cap, skip a seen item, else go on to enrich the item.
ItemLoop ==
    /\ pc = "itemLoop"
    /\ IF i < 1 \/ CapReached
       THEN /\ fi' = fi + 1
            /\ pc' = "feedLoop"
            /\ UNCHANGED i
       ELSE IF Seen(CurId)
       THEN /\ i' = i - 1
            /\ pc' = "itemLoop"
            /\ UNCHANGED fi
       ELSE /\ pc' = "enrich"
            /\ UNCHANGED << fi, i >>
    /\ UNCHANGED << envVars, file, state, postsSent, err, enrichVars,
                    creds, panicking, reported, retryVars, histVars >>

\* main.go 385-386: msg := fmt.Sprintf(..., item.Link, item.Title, aiDescript).
Message(item, d) == [link |-> item.link, title |-> item.title, text |-> d]

\* An item whose article cannot be fetched is passed over (continue).
AfterEnrichSkipOnError(fe) == IF fe = "nil" THEN "send" ELSE "pacing"

\* main.go 369-388: whatever fetchErr is, the flow goes on to sendToTelegram.
AfterEnrich(fe) == "send"

\* main.go 368-386: fetchArticleContent, then genkit.Generate if it worked;
\* aiDescript keeps the placeholder unless both succeed; msg is composed.
Enrich ==
    /\ pc = "enrich"
    /\ \E fe \in {"nil", "err"}, ae \in {"nil", "err"} :
          /\ fetchErr' = fe
          /\ aiErr' = IF fe = "nil" THEN ae ELSE None
          /\ aiDescript' = IF fe = "nil" /\ ae = "nil"
                           THEN "summary" ELSE NO_AI_DESCRIPTION
          /\ msg' = Message(CurItem, aiDescript')
          /\ pc' = AfterEnrich(fe)
    /\ UNCHANGED << envVars, file, state, postsSent, fi, i, err, creds,
                    panicking, reported, retryVars, histVars >>

\* saveState called at the end of main instead of deferred: a panic skips it.
OnPanicNoDefer == "crashed"

\* A library call of the enrichment panics: the deferred saveState runs while
\* the goroutine unwinds (main.go 335), then the process dies.
OnPanic == "saveState"

Panic ==
    /\ pc = "enrich"
    /\ panicking' = TRUE
    /\ pc' = OnPanic
    /\ UNCHANGED << envVars, file, state, postsSent, fi, i, err, enrichVars,
                    creds, reported, retryVars, histVars >>

\* sendToTelegram (main.go 192-214): nil on a status below 300, else an error
\* carrying the response body (with retry_after when rate limited) or the
\* transport error.
SendResults == {"nil", "retry_after", "other"}

\* The id that is watched after a send of `id` that ended with `r`: one id
\* whose send failed without retry_after is followed into the next run.
Watches(id, r) ==
    IF r = "other" /\ watch = None /\ prevWatch = None /\ run < MaxRuns
    THEN {None, id}
    ELSE {watch}

\* The assignment of line 390 left out.
MarkSeenNever(r, id) == state

\* The map replaced by one holding the new id only.
MarkSeenOnly(r, id) == IF r = "nil" THEN {id} ELSE state

\* The id marked before the result of the send is looked at.
MarkSeenAlways(r, id) == state \cup {id}

\* main.go 389-390: state[id] = true, on success only.
MarkSeen(r, id) == IF r = "nil" THEN state \cup {id} ELSE state

\* main.go 388-395: one call of sendToTelegram and the branch on its result.
SendToTelegram ==
    /\ pc = "send"
    /\ \E r \in SendResults :
          /\ err' = r
          /\ attempted' = attempted \cup {CurId}
          /\ watch' \in Watches(CurId, r)
          /\ state' = MarkSeen(r, CurId)
          /\ IF r = "nil"
             THEN /\ postsSent' = postsSent + 1
                  /\ delivered' = Append(delivered, CurId)
             ELSE UNCHANGED << postsSent, delivered >>
    /\ aiDescript' = None
    /\ fetchErr' = None
    /\ aiErr' = None
    /\ msg' = None
    /\ pc' = "pacing"
    /\ UNCHANGED << envVars, file, fi, i, creds, panicking, reported,
                    retryVars, loaded, loadErr, werr, saves, fetchFailed >>

\* main.go 397-398 and 356: time.Sleep(2 * time.Second); i--.
Pacing ==
    /\ pc = "pacing"
    /\ i' = i - 1
    /\ err' = None
    /\ pc' = "itemLoop"
    /\ UNCHANGED << envVars, file, state, postsSent, fi, enrichVars,
                    creds, panicking, reported, retryVars, histVars >>

\* main.go 401: the report; returning from main then runs the deferred call.
Report ==
    /\ pc = "report"
    /\ reported' = TRUE
    /\ pc' = "saveState"
    /\ UNCHANGED << envVars, file, state, postsSent, fi, i, err, enrichVars,
                    creds, panicking, retryVars, histVars >>

\* saveState (main.go 182-185), first half: MarshalIndent, then os.WriteFile
\* opens STATE_FILE with O_TRUNC; an open that fails leaves the file as it was.
SaveStateOpen ==
    /\ pc = "saveState"
    /\ saves' = saves + 1
    /\ \E ok \in BOOLEAN :
          IF ok
          THEN /\ file' = Truncated
               /\ pc' = "write"
               /\ UNCHANGED werr
          ELSE /\ werr' = "open"
               /\ pc' = IF panicking THEN "crashed" ELSE "done"
               /\ UNCHANGED file
    /\ UNCHANGED << envVars, memVars, loaded, loadErr, delivered, attempted,
                    watch, fetchFailed >>

\* saveState, second half: the data is written, or the write fails and the
\* file stays cut short.
SaveStateWrite ==
    /\ pc = "write"
    /\ \E ok \in BOOLEAN :
          IF ok
          THEN /\ file' = MarshalIndent(state)
               /\ werr' = "nil"
          ELSE /\ werr' = "write"
               /\ UNCHANGED file
    /\ pc' = IF panicking THEN "crashed" ELSE "done"
    /\ UNCHANGED << envVars, memVars, loaded, loadErr, saves, delivered,
                    attempted, watch, fetchFailed >>

Running == pc \notin {"main", "r_main", "returned", "done", "crashed", "killed"}

\* A new process starts with nothing in memory.
Fresh ==
    /\ state' = {}
    /\ postsSent' = 0
    /\ fi' = 0
    /\ i' = 0
    /\ err' = None
    /\ aiDescript' = None
    /\ fetchErr' = None
    /\ aiErr' = None
    /\ msg' = None
    /\ creds' = None
    /\ panicking' = FALSE
    /\ reported' = FALSE
    /\ loaded' = {}
    /\ loadErr' = FALSE
    /\ werr' = None
    /\ saves' = 0
    /\ delivered' = << >>
    /\ attempted' = {}
    /\ watch' = None
    /\ fetchFailed' = {}

\* The host kills the process: nothing more of main runs, the deferred
\* saveState included, and the memory of the process is gone.
Kill ==
    /\ Running
    /\ pc' = "killed"
    /\ Fresh
    /\ retries' = 0
    /\ retryAfter' = 0
    /\ slept' = 0
    /\ UNCHANGED << envVars, file >>

\* The scheduler starts the job again: a new process, the same feeds, the
\* state file as the last run left it.
NextRun ==
    /\ pc \in {"returned", "done", "crashed", "killed"}
    /\ run < MaxRuns
    /\ run' = run + 1
    /\ pc' = "main"
    /\ prevWatch' = watch
    /\ Fresh
    /\ UNCHANGED << feeds, file, retryVars >>

(***************************************************************************)
(* unnamed/part_001: one feed, no cap, and a send loop that re-sends the   *)
(* message after a retry_after answer.                                     *)
(***************************************************************************)

\* part_001 17, 82-95: the items of the single feed RSS_URL.
RItems == feeds[1]
RCurId == hash(RItems[i].link)

InitRetry ==
    /\ run = 1
    /\ pc = "r_main"
    /\ \E l \in ItemLists : feeds = [f \in DOMAIN RSS_FEEDS |-> l]
    /\ file \in { Absent, FileOf("json", {hash("a")}) }
    /\ Memory0
    /\ History0
    /\ prevWatch = None

\* part_001 74-80: missing credentials end the run.
RPreflight ==
    /\ pc = "r_main"
    /\ \E credentials \in BOOLEAN :
          pc' = IF credentials THEN "r_fetch" ELSE "returned"
    /\ UNCHANGED << envVars, file, memVars, histVars >>

\* part_001 82-95: the feed is fetched and parsed before the state is loaded;
\* a failure returns from main at once.
RFetch ==
    /\ pc = "r_fetch"
    /\ \E ok \in BOOLEAN :
          IF ok
          THEN /\ pc' = "r_loadState"
               /\ UNCHANGED fetchFailed
          ELSE /\ pc' = "returned"
               /\ fetchFailed' = {1}
    /\ UNCHANGED << envVars, file, memVars, loaded, loadErr, werr, saves,
                    delivered, attempted, watch >>

\* part_001 97-100: state := loadState(); defer saveState(state); i starts at
\* the last item.
RLoadState ==
    /\ pc = "r_loadState"
    /\ state' = loadState(file)
    /\ loaded' = file.ids
    /\ loadErr' = (file.kind # "json")
    /\ i' = Len(RItems)
    /\ pc' = "r_itemLoop"
    /\ UNCHANGED << envVars, file, postsSent, fi, err, enrichVars, creds,
                    panicking, reported, retryVars, werr, saves, delivered, attempted,
                    watch, fetchFailed >>

\* part_001 100-108: the head of the item loop.
RItemLoop ==
    /\ pc = "r_itemLoop"
    /\ IF i < 1
       THEN /\ pc' = "r_finish"
            /\ UNCHANGED i
       ELSE IF RCurId \in state
       THEN /\ i' = i - 1
            /\ pc' = "r_itemLoop"
       ELSE /\ pc' = "r_send"
            /\ UNCHANGED i
    /\ UNCHANGED << envVars, file, state, postsSent, fi, err, enrichVars,
                    creds, panicking, reported, retryVars, histVars >>

\* part_001 110-127: one call of sendToTelegram inside the for loop: success
\* marks the item and leaves the loop, a retry_after answer goes to the sleep,
\* any other error leaves the loop. Nothing in the loop counts the re-sends.
RSend ==
    /\ pc = "r_send"
    /\ attempted' = attempted \cup {RCurId}
    /\ \E r \in SendResults :
          /\ err' = r
          /\ IF r = "nil"
             THEN /\ state' = state \cup {RCurId}
                  /\ delivered' = Append(delivered, RCurId)
                  /\ pc' = "r_pacing"
                  /\ UNCHANGED retryAfter
             ELSE IF r = "retry_after"
             THEN /\ \E n \in 1..MaxRetryAfter : retryAfter' = n
                  /\ pc' = "r_backoff"
                  /\ UNCHANGED << state, delivered >>
             ELSE /\ pc' = "r_pacing"
                  /\ UNCHANGED << state, delivered, retryAfter >>
    /\ UNCHANGED << envVars, file, postsSent, fi, i, enrichVars, creds,
                    panicking, reported, retries, slept, loaded, loadErr, werr, saves,
                    watch, fetchFailed >>

\* part_001 118-121: time.Sleep(35 * time.Second); continue. The model counts
\* the re-sends of the message up to MaxRetries ("MaxRetries or more").
RBackoff ==
    /\ pc = "r_backoff"
    /\ slept' = RETRY_SLEEP
    /\ retries' = IF retries < MaxRetries THEN retries + 1 ELSE retries
    /\ pc' = "r_send"
    /\ UNCHANGED << envVars, file, state, postsSent, fi, i, err, enrichVars,
                    creds, panicking, reported, retryAfter, histVars >>

\* part_001 129 and 100: time.Sleep(2 * time.Second); i--.
RPacing ==
    /\ pc = "r_pacing"
    /\ i' = i - 1
    /\ err' = None
    /\ retries' = 0
    /\ retryAfter' = 0
    /\ slept' = 0
    /\ pc' = "r_itemLoop"
    /\ UNCHANGED << envVars, file, state, postsSent, fi, enrichVars,
                    creds, panicking, reported, histVars >>

\* part_001 132: the last line of main; returning runs the deferred saveState.
RFinish ==
    /\ pc = "r_finish"
    /\ reported' = TRUE
    /\ pc' = "saveState"
    /\ UNCHANGED << envVars, file, state, postsSent, fi, i, err, enrichVars,
                    creds, panicking, retryVars, histVars >>

NextRetry ==
    \/ RPreflight
    \/ RFetch
    \/ RLoadState
    \/ RItemLoop
    \/ RSend
    \/ RBackoff
    \/ RPacing
    \/ RFinish
    \/ SaveStateOpen
    \/ SaveStateWrite
    \/ Kill

SpecRetry == InitRetry /\ [][NextRetry]_vars

\* The steps of the program itself: the process runs on unless it is killed.
RProgram ==
    \/ RPreflight
    \/ RFetch
    \/ RLoadState
    \/ RItemLoop
    \/ RSend
    \/ RBackoff
    \/ RPacing
    \/ RFinish
    \/ SaveStateOpen
    \/ SaveStateWrite

\* The variant with a process that always gets to take its next step.
SpecRetryFair == InitRetry /\ [][NextRetry]_vars /\ WF_vars(RProgram)

Next ==
    \/ Preflight
    \/ LoadState
    \/ FeedLoop
    \/ FetchRSS
    \/ ItemLoop
    \/ Enrich
    \/ Panic
    \/ SendToTelegram
    \/ Pacing
    \/ Report
    \/ SaveStateOpen
    \/ SaveStateWrite
    \/ Kill
    \/ NextRun

Spec == Init /\ [][Next]_vars

(***************************************************************************)
(* SpecOneRun: one run of main.go started on any state file, with          *)
(* endpoints that may never answer.                                        *)
(***************************************************************************)

\* The outbound calls main makes at each position.
CallsAt(p) ==
    CASE p = "fetchRSS" -> {"fetchRSS"}
      [] p = "enrich"   -> {"fetchArticleContent", "genkit.Generate"}
      [] p = "send"     -> {"sendToTelegram"}
      [] OTHER          -> {}

\* The calls that give up after a time: fetchRSS and fetchArticleContent go
\* through an http.Client with Timeout 15 s (main.go 217-219, 246-248);
\* sendToTelegram calls http.Post, the default client, which has none
\* (main.go 203), and genkit.Generate gets context.Background() (main.go 329).
HasTimeout(call) == call \in {"fetchRSS", "fetchArticleContent"}

\* The endpoint of a call without timeout never answers: main stays in the
\* call. (With a timeout the call returns an error, which FetchRSS and Enrich
\* cover.)
NeverResponds ==
    /\ \E call \in CallsAt(pc) : ~HasTimeout(call)
    /\ pc' = "blocked"
    /\ UNCHANGED << envVars, file, memVars, histVars >>

\* A feed whose items share one link and differ in title or description.
SameLinkList ==
    << Item("a", "A2", "x"), Item("a", "A", "y"), Item("a", "A", "x") >>

\* The state files a run can find.
RunFiles ==
    { Absent, Truncated } \cup
    { FileOf(k, ids) : k \in {"json", "typed", "unreadable"},
                       ids \in SUBSET { hash("a"), hash("d") } }

InitOneRun ==
    /\ run = MaxRuns
    /\ pc = "main"
    /\ feeds \in [DOMAIN RSS_FEEDS -> ItemLists \cup {SameLinkList}]
    /\ file \in RunFiles
    /\ Memory0
    /\ History0
    /\ prevWatch = None

NextOneRun ==
    \/ Preflight
    \/ LoadState
    \/ FeedLoop
    \/ FetchRSS
    \/ ItemLoop
    \/ Enrich
    \/ Panic
    \/ NeverResponds
    \/ SendToTelegram
    \/ Pacing
    \/ Report
    \/ SaveStateOpen
    \/ SaveStateWrite
    \/ Kill

SpecOneRun == InitOneRun /\ [][NextOneRun]_vars

(***************************************************************************)
(* Properties.                                                             *)
(***************************************************************************)

\* The run ended by returning from main (normal completion or cap reached).
Completed == pc = "done"
\* The run ended inside the process: by returning or by a panic.
Exited == pc \in {"done", "crashed"}
\* The ids not marked in the state file when the run read it.
Eligible == AllIds \ loaded
\* Every id of feed f was delivered, found seen or handed to sendToTelegram.
Processed(f) == IdsOf(f) \subseteq state \cup attempted

\* C1: no enrichment and no delivery attempt is made for an item whose id is
\* marked in the in-memory seen-set when the item is checked, whether the id
\* came from the state file or was marked earlier in the same run.
C1_NoAttemptForSeen ==
    pc \in {"enrich", "send"} => CurId \notin state

\* C1 witness: the item loop is checking an item whose id was marked earlier
\* in this run, in a run that also loaded ids from the state file.
C1_Witness ==
    /\ pc = "itemLoop" /\ i >= 1 /\ ~CapReached
    /\ CurId \in state /\ CurId \notin loaded
    /\ loaded # {}

C3_SavedOnEveryExitAsClaimed ==
    Exited =>
        /\ saves = 1
        /\ Range(delivered) \subseteq file.ids

\* C3 amended: saveState runs exactly once on every exit inside the process
\* (return or panic) and not before, with a set that holds every id delivered
\* in the run; when os.WriteFile reported no error the file is that set; and
\* a run that loads a set re-sends none of its ids.
C3_SavedOnEveryExit ==
    /\ saves <= 1
    /\ (saves = 1 => pc \in {"write", "done", "crashed"})
    /\ (Exited =>
          /\ saves = 1
          /\ Range(delivered) \subseteq state
          /\ (werr = "nil" => file = MarshalIndent(state)))
    /\ (~loadErr => Range(delivered) \cap loaded = {})

\* C3 witness: a run that delivered an item and then panicked has saved the
\* set with that item.
C3_Witness ==
    /\ pc = "crashed" /\ werr = "nil"
    /\ delivered # << >>
    /\ Range(delivered) \subseteq file.ids

\* C4 as claimed: a delivery attempt answered with retry_after is followed by
\* a re-send of the same message, so when the controller moves past the item
\* (the pacing before the next item) the item is marked seen.
C4_RateLimitRetried ==
    (pc = "pacing" /\ err = "retry_after") => CurId \in state

\* C5 as claimed: before the variant re-sends a rate-limited message it has
\* waited at least the retry_after the target asked for.
C5_WaitAtLeastRetryAfter ==
    (pc = "r_send" /\ retries > 0) => slept >= retryAfter

\* C6: postsSent never exceeds the cap, and a run that completes with every
\* feed fetched and every send accepted, over at least cap eligible ids,
\* delivers and marks exactly cap of them; the other eligible ids stay
\* unmarked, in memory and in the file it saves.
C6_CapEnforced ==
    /\ postsSent <= MAX_POSTS_PER_RUN
    /\ Len(delivered) <= MAX_POSTS_PER_RUN
    /\ (/\ Completed
        /\ fetchFailed = {}
        /\ attempted = Range(delivered)
        /\ Cardinality(Eligible) >= MAX_POSTS_PER_RUN)
       => /\ Len(delivered) = MAX_POSTS_PER_RUN
          /\ Cardinality(state \ loaded) = MAX_POSTS_PER_RUN
          /\ Cardinality(Eligible \ state)
                = Cardinality(Eligible) - MAX_POSTS_PER_RUN
          /\ (werr = "nil" => (Eligible \ state) \cap file.ids = {})

\* C6 witness: five eligible ids across the feeds, every send accepted: two
\* delivered and marked, three left unmarked.
C6_Witness ==
    /\ Completed /\ werr = "nil"
    /\ fetchFailed = {}
    /\ attempted = Range(delivered)
    /\ Cardinality(Eligible) = 5
    /\ Len(delivered) = 2
    /\ Cardinality(Eligible \ file.ids) = 3

\* C7: feeds are taken in declaration order and the items of a feed from the
\* last of its list to the first: when an item is about to be enriched or
\* sent, every item after it in the list of its feed, and every item of every
\* earlier feed that was fetched, is already seen or was already attempted.
C7_OldestFirst ==
    pc \in {"enrich", "send"} =>
        /\ \A k \in (i + 1)..Len(Items(fi)) :
              hash(Items(fi)[k].link) \in state \cup attempted
        /\ \A f \in 1..(fi - 1) : f \in fetchFailed \/ Processed(f)

\* C7 witness: a feed lists [c, b, a]; a was delivered, b was attempted and
\* failed, and c is now being sent.
C7_Witness ==
    /\ pc = "send" /\ i = 1
    /\ Len(Items(fi)) = 3
    /\ CurId = hash("c")
    /\ delivered = << hash("a") >>
    /\ attempted = {hash("a"), hash("b")}

\* C8 as claimed: a send that fails without retry_after leaves the id
\* unmarked and postsSent as it was, the run goes on, and the next run
\* (one that completes and fetches every feed) attempts the item again.
C8_FailedItemRetriedAsClaimed ==
    /\ (pc = "pacing" /\ err = "other") =>
          (CurId \notin state /\ postsSent = Len(delivered))
    /\ (run >= 2 /\ Completed /\ fetchFailed = {} /\ prevWatch # None) =>
          prevWatch \in attempted

\* C8 amended: ... and the next run attempts the item again unless it
\* reached the cap first, failed to fetch every feed that lists the item, or
\* found the id marked in the state file (a second item with the same link
\* was delivered after the failure).
C8_FailedItemRetried ==
    /\ (pc = "pacing" /\ err = "other") =>
          (CurId \notin state /\ postsSent = Len(delivered))
    /\ (run >= 2 /\ Completed /\ prevWatch # None) =>
          \/ prevWatch \in attempted
          \/ CapReached
          \/ prevWatch \in loaded
          \/ \A f \in DOMAIN RSS_FEEDS : prevWatch \in IdsOf(f) => f \in fetchFailed

\* C8 witness: an item whose send failed in the previous run was attempted
\* again, and delivered, in this run.
C8_Witness ==
    /\ run >= 2 /\ Completed
    /\ prevWatch # None
    /\ prevWatch \in Range(delivered)

\* C9 (step): a failed fetch changes neither the seen-set nor postsSent nor
\* what was delivered, and the loop goes on with the next feed.
C9_FetchFailureStep ==
    (pc = "fetchRSS" /\ fi \notin fetchFailed /\ fi \in fetchFailed') =>
        /\ state' = state
        /\ postsSent' = postsSent
        /\ delivered' = delivered
        /\ pc' = "feedLoop"
        /\ fi' = fi + 1

\* C9 (run): when the run reaches its report, every feed whose fetch did not
\* fail was processed: each of its items was delivered, found seen or handed
\* to sendToTelegram, unless the cap was reached.
C9_OtherFeedsProcessed ==
    pc = "report" =>
        \A f \in DOMAIN RSS_FEEDS : f \in fetchFailed \/ CapReached \/ Processed(f)

\* C9: a feed that fails to fetch leaves the seen-set and postsSent unchanged
\* and every other feed is still processed, subject to the cap.
C9_FeedFailureIsolated ==
    [][C9_FetchFailureStep]_vars /\ []C9_OtherFeedsProcessed

\* C9 witness: feed 2 of 3 failed to fetch, nothing of it was marked, and an
\* item of feed 1 and an item of feed 3 were delivered.
C9_Witness ==
    /\ Completed
    /\ fetchFailed = {2}
    /\ IdsOf(2) # {} /\ IdsOf(2) \cap state = {}
    /\ Len(delivered) = 2
    /\ delivered[1] \in IdsOf(1) /\ delivered[1] \notin IdsOf(3)
    /\ delivered[2] \in IdsOf(3) /\ delivered[2] \notin IdsOf(1)

\* C10 as claimed: the state file always holds a complete snapshot (or does
\* not exist yet), also while saveState is running.
C10_AtomicOverwrite ==
    file.kind \in {"absent", "json"}

(***************************************************************************)
(* C11. Every outbound call of a run carries a bounded timeout, so that    *)
(* the run goes on to the report and the save even when one endpoint never *)
(* answers: no run is ever left waiting inside a call.                     *)
(***************************************************************************)
C11_NoCallWaitsForever == pc # "blocked"

(***************************************************************************)
(* C12. Whatever STATE_FILE holds that is not a clean snapshot (no file,   *)
(* an unreadable file, invalid JSON, JSON with values that are not         *)
(* booleans), loadState returns the empty set without an error and the run *)
(* proceeds: until the first delivery of such a run, state is empty.       *)
(***************************************************************************)
C12_CorruptFileLoadsEmpty == (loadErr /\ delivered = << >>) => state = {}

(***************************************************************************)
(* C13. When TG_BOT_TOKEN or TG_CHANNEL_ID is missing, the run ends before *)
(* any network activity (no feed fetch, no enrichment, no delivery         *)
(* attempt), and STATE_FILE is neither read nor written.                   *)
(***************************************************************************)
C13_NothingDone ==
    /\ pc = "returned"
    /\ fi = 0 /\ fetchFailed = {}
    /\ fetchErr = None /\ aiErr = None /\ msg = None
    /\ attempted = {} /\ delivered = << >> /\ postsSent = 0
    /\ loaded = {} /\ ~loadErr /\ state = {}
    /\ saves = 0 /\ werr = None

C13_PreflightEndsRun ==
    /\ [](creds = "no_telegram" => C13_NothingDone)
    /\ [][creds' = "no_telegram" => file' = file]_vars

\* Reached: a second run without the Telegram credentials, on a state file
\* that the first run wrote with ids in it.
C13_Witness ==
    /\ creds = "no_telegram"
    /\ run = 2
    /\ file.kind = "json"
    /\ file.ids # {}

(***************************************************************************)
(* C14. For every unseen item reached below the cap, exactly one delivery  *)
(* attempt is made, carrying the link and the title of the item, whatever  *)
(* fetchArticleContent and genkit.Generate returned; when either failed    *)
(* the description sent is the placeholder. (A step that kills the process *)
(* or starts a panic is not an outcome of the two calls.)                  *)
(***************************************************************************)
C14_MessageOfItem ==
    pc = "send" =>
        /\ msg.link = CurItem.link
        /\ msg.title = CurItem.title
        /\ (fetchErr = "err" \/ aiErr = "err") => msg.text = NO_AI_DESCRIPTION
        /\ (fetchErr = "nil" /\ aiErr = "nil") => msg.text = "summary"

C14_OneAttemptStep ==
    (pc' # "killed" /\ ~panicking') =>
        /\ ( /\ pc = "itemLoop"
             /\ i >= 1
             /\ postsSent < MAX_POSTS_PER_RUN
             /\ CurId \notin state )
           => (pc' = "enrich" /\ UNCHANGED << fi, i >>)
        /\ pc = "enrich" => (pc' = "send" /\ UNCHANGED << fi, i, attempted >>)
        /\ pc = "send"
           => /\ pc' = "pacing"
              /\ attempted' = attempted \cup {CurId}
              /\ UNCHANGED << fi, i >>
        /\ pc = "pacing"
           => (pc' = "itemLoop" /\ i' = i - 1 /\ UNCHANGED << fi, attempted >>)

C14_EnrichmentIsolated == []C14_MessageOfItem /\ [][C14_OneAttemptStep]_vars

\* Reached: the second item of a run is about to be sent with the placeholder
\* after its article was fetched and the summarization failed.
C14_Witness ==
    /\ pc = "send"
    /\ postsSent = 1
    /\ fetchErr = "nil"
    /\ aiErr = "err"
    /\ msg = Message(CurItem, NO_AI_DESCRIPTION)

(***************************************************************************)
(* C15. Within one process, an identity that is marked in the in-memory    *)
(* state map stays marked in every later state of the run, and it is in    *)
(* the snapshot that saveState writes.                                     *)
(***************************************************************************)
C15_MonotoneStep ==
    /\ pc' \notin {"killed", "main"} => state \subseteq state'
    /\ (pc = "write" /\ werr' = "nil") => file'.ids = state

C15_MarkedStays ==
    /\ Range(delivered) \subseteq state
    /\ ~loadErr => loaded \subseteq state

C15_Monotonic == []C15_MarkedStays /\ [][C15_MonotoneStep]_vars

\* Reached: a run that loaded ids and delivered up to the cap has written a
\* snapshot holding all of them.
C15_Witness ==
    /\ pc = "done"
    /\ werr = "nil"
    /\ loaded # {}
    /\ Len(delivered) = MAX_POSTS_PER_RUN
    /\ file.ids = loaded \cup Range(delivered)

(***************************************************************************)
(* C16. The identity of an item is a function of its link alone: items     *)
(* that differ only in title or only in description have one identity, and *)
(* an item has in every run the identity under which an earlier run stored *)
(* it, so an item whose link's hash is marked is never processed.          *)
(***************************************************************************)
C16_IdentityFromLink ==
    /\ (pc \in {"itemLoop", "enrich", "send"} /\ i >= 1) =>
          \A g \in DOMAIN RSS_FEEDS :
             \A l \in DOMAIN Items(g) :
                Items(g)[l].link = CurItem.link
                   => Identity(Items(g)[l]) = CurId
    /\ pc \in {"enrich", "send"} => hash(CurItem.link) \notin state

\* Reached: in a feed of three items with one link, the oldest was delivered,
\* the one differing in description was passed over without an attempt, and
\* the loop stands at the one differing in title.
C16_Witness ==
    /\ pc = "itemLoop"
    /\ Items(fi) = SameLinkList
    /\ i = 1
    /\ loaded = {}
    /\ delivered = << hash("a") >>
    /\ attempted = { hash("a") }
    /\ Seen(CurId)

(***************************************************************************)
(* C17. Once postsSent has reached MAX_POSTS_PER_RUN the run makes no feed *)
(* fetch, no enrichment call and no delivery attempt any more: it leaves   *)
(* the two loops, reports and saves.                                       *)
(***************************************************************************)
C17_StopAtCap ==
    postsSent >= MAX_POSTS_PER_RUN =>
        /\ pc \in {"pacing", "itemLoop", "feedLoop", "report", "saveState",
                    "write", "done"}
        /\ postsSent = MAX_POSTS_PER_RUN
        /\ Len(delivered) = MAX_POSTS_PER_RUN

\* Reached: the cap was met inside the first feed; the run has ended with the
\* other feeds never fetched and undelivered items left.
C17_Witness ==
    /\ pc = "done"
    /\ postsSent = MAX_POSTS_PER_RUN
    /\ fi = 2
    /\ fetchFailed = {}
    /\ AllIds \ (state \cup attempted) # {}

(***************************************************************************)
(* C18. At the end of every run the state is persisted first and the final *)
(* postsSent count is reported only afterwards: whenever the report has    *)
(* been printed, saveState has already been called in that run.            *)
(***************************************************************************)
C18_SaveThenReport == reported => saves > 0

(***************************************************************************)
(* C19. In unnamed/part_001 the re-sends of one item after rate-limit      *)
(* answers are bounded, so the run comes to its end (and saves the state)  *)
(* even when the target answers every attempt with a rate-limit signal.    *)
(***************************************************************************)
C19_RunEnds == <>(pc \in {"returned", "done", "crashed", "killed"})

(***************************************************************************)
(* C20. Within one run each identity is delivered at most once, also when  *)
(* its link occurs several times in one feed or in several feeds, and at   *)
(* every point postsSent is the number of identities that the run has      *)
(* switched to seen.                                                       *)
(***************************************************************************)
C20_OncePerRun ==
    /\ \A j \in DOMAIN delivered, k \in DOMAIN delivered :
          j # k => delivered[j] # delivered[k]
    /\ ~loadErr => Range(delivered) \cap loaded = {}
    /\ postsSent = Len(delivered)
    /\ postsSent = Cardinality(state \ (IF loadErr THEN {} ELSE loaded))

\* Reached: link a stands twice in feed 1 and once in feed 2; the run has
\* delivered a once, then b, with no other attempt.
C20_Witness ==
    /\ pc = "done"
    /\ Len(Items(1)) = 2 /\ IdsOf(1) = { hash("a") }
    /\ hash("a") \in IdsOf(2)
    /\ delivered = << hash("a"), hash("b") >>
    /\ attempted = Range(delivered)

(***************************************************************************)
(* C21. The persisted seen-set only grows across runs: after a completed   *)
(* run every identity that was marked in STATE_FILE before the run is      *)
(* still marked in it. As claimed this includes the run whose loadState    *)
(* could not read or decode the file and which then saved its map; it      *)
(* holds for the run that loaded the file without error and whose save     *)
(* succeeded, and for the run whose save could not open the file.          *)
(***************************************************************************)
C21_PersistedSetGrowsAsClaimed ==
    (Completed /\ werr = "nil") => loaded \subseteq file.ids

C21_PersistedSetGrows ==
    (Completed /\ (werr = "open" \/ (werr = "nil" /\ ~loadErr)))
        => loaded \subseteq file.ids

\* Reached: a run that read the id of d from the file and delivered other
\* items has written a file that holds them all.
C21_Witness ==
    /\ Completed
    /\ werr = "nil"
    /\ ~loadErr
    /\ loaded = { hash("d") }
    /\ delivered # << >>
    /\ file.ids = loaded \cup Range(delivered)

====
